---- MODULE Spec2Model ----
(***************************************************************************)
(* License backend (PayOS payment -> license key -> device binding).       *)
(*                                                                         *)
(* The repository holds five revisions of the same Express server:         *)
(*   "v1"   src/unnamed/part_001 lines   1-240                             *)
(*   "v20"  src/server.js                      (reports version 2.0.0)     *)
(*   "v21"  src/unnamed/part_000 lines 664-1191 (version 2.1.0)            *)
(*   "v22"  src/unnamed/part_001 lines 313-767  (version 2.2.0)            *)
(*   "v31"  src/unnamed/part_000 lines   1-660  (version 3.1.0)            *)
(* The variable ver is the revision that is running; it never changes.     *)
(*                                                                         *)
(* Encodings.  Order ids are naturals: the decimal string that keys the    *)
(* payments Map is written as the number it spells (Number.toString is     *)
(* injective).  Times are clock readings in abstract units; Year and       *)
(* AttemptWindow are the two durations of the code scaled to that unit.    *)
(* A handler runs within one clock reading.                                *)
(*                                                                         *)
(* Left out: the admin and health routes, and the signature helpers,       *)
(* which no route calls.                                                   *)
(***************************************************************************)
EXTENDS Integers, Sequences, FiniteSets, TLC

\* ---------------------------------------------------------------- bounds
MaxTime == 2          \* last clock reading explored
Year == 1             \* setFullYear(getFullYear() + 1), in clock units
AttemptWindow == 1    \* the 3600000 ms window of the limiter, in clock units
RateWindow == 1       \* RATE_WINDOW, one hour as well, in clock units
MaxRequests == 3      \* requests of one address in a window (license side)
MaxQueue == 1         \* confirmations waiting behind a running handler
MaxAwait == 1         \* create-payment requests awaiting the provider
MaxOrders == 2        \* ledger entries explored
MaxHandlers == 2      \* handler contexts (only one ever runs at a time)

\* ------------------------------------------------------- program constants
AttemptLimit == 10
RATE_LIMIT == 100

\* ------------------------------------------------------------ null markers
Undef == "undefined"  \* an absent string field
NoKey == <<>>         \* licenseKey: null
NoDevice == <<>>      \* deviceId: null / absent
NoTime == -1          \* an absent timestamp
NoAmount == -1        \* an absent amount / price
NoOrder == -1         \* orderCode undefined
BadOrder == -2        \* an orderCode object whose toString is not callable

Versions == {"v1", "v20", "v21", "v22", "v31"}
OrderIds == {0, 1}
Amounts == {100}
Devices == {"devX", "devY"}
Ips == {"ip1"}
Slots == 1..MaxHandlers

VARIABLES ver, now, payments, licenses, deviceLicenses, activationAttempts,
          requestCounts, handlers, queue, awaiting, res

vars == <<ver, now, payments, licenses, deviceLicenses, activationAttempts,
          requestCounts, handlers, queue, awaiting, res>>

\* ------------------------------------------------------------------ helpers

\* crypto.randomBytes(n).toString('hex').toUpperCase(), as the sequence of
\* its 4-character chunks (n bytes give n \div 2 chunks).
randomBytes(n) ==
    { SubSeq(r, 1, n \div 2) :
        r \in { <<"0A1B", "2C3D", "4E5F", "6071", "8293", "A4B5", "C6D7", "E8F9">>,
                <<"FFEE", "DDCC", "BBAA", "9988", "7766", "5544", "3322", "1100">> } }

\* generateLicenseKey: `${prefix}-${slice(0,4)}-${slice(4,8)}-${slice(8,12)}-...`.
\* v1 draws 12 bytes and ends with random.slice(12), the rest of the string;
\* the other revisions draw 16 bytes and end with random.slice(12, 16).
\* A key is the sequence of its dash-separated groups; the chunks of a long
\* last group follow each other.
generateLicenseKey(v) ==
    IF v = "v1"
      THEN { <<"PACK", r[1], r[2], r[3]>> \o SubSeq(r, 4, Len(r)) : r \in randomBytes(12) }
      ELSE { <<"PACK", r[1], r[2], r[3], r[4]>> : r \in randomBytes(16) }

\* A license key as a client types it: the key, possibly lower-cased and
\* padded with blanks.  present = FALSE is a request without licenseKey.
KeyTexts ==
    { [present |-> TRUE, key |-> k, lower |-> l, padded |-> l] :
        k \in generateLicenseKey("v1") \cup generateLicenseKey("v31"),
        l \in BOOLEAN }

NoKeyText == [present |-> FALSE, key |-> NoKey, lower |-> FALSE, padded |-> FALSE]

\* licenseKey.trim().toUpperCase(): the Map key the text normalises to
TrimUpper(text) == text.key

\* The text is the key itself, character for character.
Exact(text) == text.present /\ ~text.lower /\ ~text.padded

\* expiryDate = new Date(); expiryDate.setFullYear(expiryDate.getFullYear() + 1)
AddYear(t) == t + Year

\* new Date(license.expiryDate) < new Date()
Expired(license, t) == license.expiryDate < t

\* Map.set
MapSet(m, k, v) == (k :> v) @@ m

\* ------------------------------------------------------------------ records

\* An entry of the payments Map.  productName, userEmail and payosData are
\* stored by some revisions and read by none; they are left out.
Payment(o, a, t) ==
    [orderId |-> o, status |-> "pending", amount |-> a, createdAt |-> t,
     licenseKey |-> NoKey, completedAt |-> NoTime]

\* An entry of the licenses Map as the confirmation handlers store it.
License(k, o, t) ==
    [key |-> k, orderId |-> o, status |-> "active", createdAt |-> t,
     expiryDate |-> AddYear(t), deviceId |-> NoDevice, activatedAt |-> NoTime]

\* ----------------------------------------------------------------- requests

BaseReq ==
    [ep |-> "none", code |-> Undef, success |-> FALSE, status |-> Undef,
     desc |-> Undef, orderCode |-> NoOrder, amount |-> NoAmount,
     hasData |-> FALSE, dcode |-> Undef, dstatus |-> Undef, ddesc |-> Undef,
     dorderCode |-> NoOrder, damount |-> NoAmount, cancel |-> Undef]

\* The body PayOS posts: {code, desc, success, data: {orderCode, amount, code, desc}}
PayOSBody(o, a) ==
    [BaseReq EXCEPT !.ep = "webhook", !.code = "00", !.desc = "success",
                    !.success = TRUE, !.hasData = TRUE, !.dorderCode = o,
                    !.damount = a, !.dcode = "00", !.ddesc = "success"]

\* {code: "00", success: true, data: {orderCode, amount}}
PlainBody(o, a) ==
    [BaseReq EXCEPT !.ep = "webhook", !.code = "00", !.success = TRUE,
                    !.hasData = TRUE, !.dorderCode = o, !.damount = a]

\* {data: {orderCode, status: "PAID", amount}}
PaidBody(o, a) ==
    [BaseReq EXCEPT !.ep = "webhook", !.hasData = TRUE, !.dorderCode = o,
                    !.dstatus = "PAID", !.damount = a]

\* {code: "01", desc: "failed", success: false, data: {orderCode, code: "01", desc: "failed"}}
FailedBody(o) ==
    [BaseReq EXCEPT !.ep = "webhook", !.code = "01", !.desc = "failed",
                    !.hasData = TRUE, !.dorderCode = o, !.dcode = "01",
                    !.ddesc = "failed"]

\* {}
EmptyBody == [BaseReq EXCEPT !.ep = "webhook"]

WebhookBodies ==
    { PayOSBody(o, a) : o \in OrderIds \cup {NoOrder, BadOrder}, a \in Amounts }
      \cup { PlainBody(o, a) : o \in OrderIds, a \in Amounts }
      \cup { PaidBody(o, a) : o \in OrderIds \cup {NoOrder}, a \in Amounts }
      \cup { FailedBody(o) : o \in OrderIds }
      \cup { EmptyBody }

\* ?code=00&id=..&cancel=false&status=PAID&orderCode=o
PaidReturn(o) ==
    [BaseReq EXCEPT !.ep = "redirect", !.code = "00", !.status = "PAID",
                    !.orderCode = o, !.cancel = "false"]

\* ?code=00&id=..&cancel=true&status=CANCELLED&orderCode=o
CancelledReturn(o) ==
    [BaseReq EXCEPT !.ep = "redirect", !.code = "00", !.status = "CANCELLED",
                    !.orderCode = o, !.cancel = "true"]

RedirectQueries ==
    { PaidReturn(o) : o \in OrderIds \cup {NoOrder} }
      \cup { CancelledReturn(o) : o \in OrderIds }

\* The routes a revision mounts for the two confirmation channels.
HasRedirect(v) == v \in {"v20", "v21", "v22", "v31"}

Confirmations(v) ==
    WebhookBodies \cup (IF HasRedirect(v) THEN RedirectQueries ELSE {})

\* const webhookData = req.body.data || req.body   (v1, v20)
webhookData(r) ==
    IF r.hasData
      THEN [orderCode |-> r.dorderCode, code |-> r.dcode, status |-> r.dstatus,
            desc |-> r.ddesc, amount |-> r.damount]
      ELSE [orderCode |-> r.orderCode, code |-> r.code, status |-> r.status,
            desc |-> r.desc, amount |-> r.amount]

\* a || b on two strings of which Undef is the falsy one
OrElse(a, b) == IF a # Undef THEN a ELSE b

\* The revision reconciles on the redirect (v2.2.0, v3.1.0); v2.0.0 and
\* v2.1.0 only send a fixed page.
RedirectReconciles(v) == v \in {"v22", "v31"}

\* The test that guards the reconciliation block.
IsSuccess(v, r) ==
    IF r.ep = "redirect"
      THEN RedirectReconciles(v) /\ r.code = "00" /\ r.status = "PAID"
             /\ r.orderCode # NoOrder
      ELSE CASE v \in {"v21", "v22", "v31"} ->
                  r.code = "00" /\ r.success = TRUE /\ r.hasData
             [] v = "v20" ->
                  LET d == webhookData(r)
                      status == OrElse(d.code, d.status)
                  IN  status = "00" \/ status = "PAID" \/ d.desc = "success"
             [] v = "v1" ->
                  LET d == webhookData(r) IN d.status = "PAID" \/ d.status = "paid"

\* The order code the handler reads from the request.
RawOrder(v, r) ==
    IF r.ep = "redirect" THEN r.orderCode
    ELSE IF v \in {"v21", "v22", "v31"} THEN r.dorderCode
    ELSE webhookData(r).orderCode

\* The handler raises a TypeError before it touches the Maps:
\*   v2.0.0 evaluates webhookData.orderCode?.toString() before the test;
\*   v1 evaluates orderCode.toString() inside the block;
\*   the others evaluate data.orderCode?.toString() inside the block.
Throws(v, r) ==
    /\ r.ep = "webhook"
    /\ CASE v = "v20" -> RawOrder(v, r) = BadOrder
         [] v = "v1" -> IsSuccess(v, r) /\ RawOrder(v, r) \in {NoOrder, BadOrder}
         [] OTHER -> IsSuccess(v, r) /\ RawOrder(v, r) = BadOrder

\* The request reaches the reconciliation block.
Reconciles(v, r) == IsSuccess(v, r) /\ ~Throws(v, r)

\* orderCode.toString(): the key under which the ledger is read and written
\* (undefined stays undefined with ?.).
OrderKey(v, r) == RawOrder(v, r)

\* ---------------------------------------------------------------- responses

\* The last exchange: the route, the HTTP status and the branch of the
\* handler that answered, the order the request named, and whether the
\* handler logged "License created" while serving it.
NoRes == [ep |-> "none", code |-> 0, tag |-> "none", order |-> NoOrder,
          minted |-> FALSE]

Reply(ep, code, tag) == [NoRes EXCEPT !.ep = ep, !.code = code, !.tag = tag]

\* -------------------------------------------- the confirmation handlers

\* The locals of a confirmation handler.  found: payments.get returned an
\* entry, so that the local payment is that entry; otherwise the local
\* payment is a placeholder object that is in no Map yet.  queued: the
\* request arrived while another handler was running.
IdleCtx ==
    [pc |-> "idle", req |-> BaseReq, queued |-> FALSE, order |-> NoOrder,
     found |-> FALSE, createdAt |-> NoTime, threw |-> FALSE,
     minted |-> FALSE, key |-> NoKey]

NewCtx(r, q) == [IdleCtx EXCEPT !.pc = "lookup", !.req = r, !.queued = q]

\* The placeholder the handler builds when payments.get finds nothing; the
\* redirect's placeholder has no amount.
Placeholder(c) ==
    Payment(c.order,
            IF c.req.ep = "redirect" THEN NoAmount ELSE c.req.damount,
            c.createdAt)

\* The local variable payment.
LocalPayment(c) ==
    IF c.found /\ c.order \in DOMAIN payments
      THEN payments[c.order]
      ELSE Placeholder(c)

\* From the first statement to payments.get and the placeholder.
LookupStep(c) ==
    IF Throws(ver, c.req)
      THEN [c EXCEPT !.pc = "respond", !.threw = TRUE]
    ELSE IF ~IsSuccess(ver, c.req)
      THEN [c EXCEPT !.pc = "respond"]
    ELSE [c EXCEPT !.pc = "check",
                   !.order = OrderKey(ver, c.req),
                   !.found = OrderKey(ver, c.req) \in DOMAIN payments,
                   !.createdAt = now]

\* A minting block that also wants the notified amount to be the recorded one.
NeedsMintPaidInFull(v, c, p) ==
    p.status # "completed" /\ c.req.damount = p.amount

\* The minting block with its guard left out.
NeedsMintAlways(v, c, p) == TRUE

\* The test in front of the minting block:
\*   v1      !(existingPayment && existingPayment.licenseKey)
\*   v2.0.0  payment && payment.status !== 'completed'
\*   others  payment.status !== 'completed'
NeedsMint(v, c, p) ==
    CASE v = "v1" -> ~(c.found /\ p.licenseKey # NoKey)
      [] v = "v20" -> c.found /\ p.status # "completed"
      [] OTHER -> p.status # "completed"

CheckStep(c) ==
    IF NeedsMint(ver, c, LocalPayment(c))
      THEN [c EXCEPT !.pc = "mint"]
      ELSE [c EXCEPT !.pc = "respond"]

\* A completion that leaves the license key out.
CompletedKeyless(p, k, t) == [p EXCEPT !.status = "completed", !.completedAt = t]

\* payment.status = 'completed'; payment.licenseKey = licenseKey;
\* payment.completedAt = new Date().toISOString()
Completed(p, k, t) ==
    [p EXCEPT !.status = "completed", !.licenseKey = k, !.completedAt = t]

\* licenses.set(licenseKey, {...})
MintedLicenses(c, k) == MapSet(licenses, k, License(k, c.order, now))

\* The update of payment and payments.set; v1 writes the ledger only when
\* it found an entry.
MintedPayments(c, k) ==
    IF ver = "v1" /\ ~c.found
      THEN payments
      ELSE MapSet(payments, c.order, Completed(LocalPayment(c), k, now))

MintStep(c, k) == [c EXCEPT !.pc = "respond", !.minted = TRUE, !.key = k]

\* What the handler sends.  The webhook of v1 and v2.0.0 answers 500 from
\* its catch block, the later revisions answer {success: true} there too.
\* The redirect of v2.0.0 and v2.1.0 is a fixed page.
Response(v, c) ==
    LET r == c.req
        to == [NoRes EXCEPT !.order = RawOrder(v, r), !.minted = c.minted]
    IN  IF r.ep = "webhook"
          THEN IF c.threw /\ v \in {"v1", "v20"}
                 THEN [to EXCEPT !.ep = "webhook", !.code = 500, !.tag = "error"]
                 ELSE [to EXCEPT !.ep = "webhook", !.code = 200, !.tag = "ack"]
          ELSE [to EXCEPT
                  !.ep = "redirect", !.code = 200,
                  !.tag = IF ~RedirectReconciles(v) THEN "page-success"
                          ELSE IF r.code = "00" /\ r.status = "PAID" THEN "page-success"
                          ELSE IF r.cancel = "true" \/ r.status = "CANCELLED"
                            THEN "page-cancelled"
                          ELSE "page-processing"]

\* The ledger keys in use or about to be used (for the MaxOrders bound).
AddsOrder(v, r) == Reconciles(v, r) /\ v \in {"v21", "v22", "v31"}

KnownOrders ==
    DOMAIN payments
      \cup { OrderKey(ver, handlers[s].req) :
               s \in { t \in Slots : handlers[t].pc # "idle"
                                       /\ AddsOrder(ver, handlers[t].req) } }
      \cup { OrderKey(ver, queue[i]) :
               i \in { j \in DOMAIN queue : AddsOrder(ver, queue[j]) } }
      \cup { awaiting[i].orderCode : i \in DOMAIN awaiting }

Room(o) == Cardinality(KnownOrders \cup {o}) <= MaxOrders

\* A handler that gave the thread back between its statements.
ThreadShared == TRUE

\* Node runs one callback at a time and the confirmation handlers contain
\* no await: from its first statement to its response a handler keeps the
\* thread, and every other callback waits.
ThreadFree == \A s \in Slots : handlers[s].pc = "idle"

\* POST /api/payos-webhook and GET /api/payment-success, from the request
\* to the response.
Confirm(r) ==
    LET c1 == LookupStep(NewCtx(r, FALSE))
        c2 == CheckStep(c1)
    IN  /\ ThreadFree
        /\ AddsOrder(ver, r) => Room(OrderKey(ver, r))
        /\ IF c1.pc = "respond"
             THEN /\ res' = Response(ver, c1)
                  /\ UNCHANGED <<payments, licenses>>
           ELSE IF c2.pc = "respond"
             THEN /\ res' = Response(ver, c2)
                  /\ UNCHANGED <<payments, licenses>>
           ELSE \E k \in generateLicenseKey(ver) :
                  /\ licenses' = MintedLicenses(c2, k)
                  /\ payments' = MintedPayments(c2, k)
                  /\ res' = Response(ver, MintStep(c2, k))
        /\ UNCHANGED <<ver, now, deviceLicenses, activationAttempts, requestCounts,
                       handlers, queue, awaiting>>

\* -------------------------------------- the handlers, statement by statement

\* The handler context a new callback runs in.
FreeSlot == CHOOSE s \in Slots : /\ handlers[s].pc = "idle"
                                 /\ \A t \in Slots : t < s => handlers[t].pc # "idle"

\* A confirmation arrives while no callback runs: its handler starts.
Begin(r) ==
    /\ ThreadFree
    /\ queue = <<>>
    /\ \E s \in Slots : handlers[s].pc = "idle"
    /\ AddsOrder(ver, r) => Room(OrderKey(ver, r))
    /\ handlers' = [handlers EXCEPT ![FreeSlot] = NewCtx(r, FALSE)]
    /\ UNCHANGED <<ver, now, payments, licenses, deviceLicenses,
                   activationAttempts, requestCounts, queue, awaiting, res>>

\* A confirmation arrives while a handler runs: it waits for the thread.
Enqueue(r) ==
    /\ ~ThreadFree
    /\ Len(queue) < MaxQueue
    /\ AddsOrder(ver, r) => Room(OrderKey(ver, r))
    /\ queue' = Append(queue, r)
    /\ UNCHANGED <<ver, now, payments, licenses, deviceLicenses,
                   activationAttempts, requestCounts, handlers, awaiting, res>>

\* The thread is free again: the handler of a waiting confirmation starts.
Dequeue ==
    /\ ThreadFree
    /\ queue # <<>>
    /\ \E s \in Slots : handlers[s].pc = "idle"
    /\ handlers' = [handlers EXCEPT ![FreeSlot] = NewCtx(Head(queue), TRUE)]
    /\ queue' = Tail(queue)
    /\ UNCHANGED <<ver, now, payments, licenses, deviceLicenses,
                   activationAttempts, requestCounts, awaiting, res>>

Lookup(s) ==
    /\ handlers[s].pc = "lookup"
    /\ handlers' = [handlers EXCEPT ![s] = LookupStep(handlers[s])]
    /\ UNCHANGED <<ver, now, payments, licenses, deviceLicenses,
                   activationAttempts, requestCounts, queue, awaiting, res>>

Check(s) ==
    /\ handlers[s].pc = "check"
    /\ handlers' = [handlers EXCEPT ![s] = CheckStep(handlers[s])]
    /\ UNCHANGED <<ver, now, payments, licenses, deviceLicenses,
                   activationAttempts, requestCounts, queue, awaiting, res>>

Mint(s) ==
    /\ handlers[s].pc = "mint"
    /\ \E k \in generateLicenseKey(ver) :
         /\ licenses' = MintedLicenses(handlers[s], k)
         /\ payments' = MintedPayments(handlers[s], k)
         /\ handlers' = [handlers EXCEPT ![s] = MintStep(handlers[s], k)]
    /\ UNCHANGED <<ver, now, deviceLicenses, activationAttempts, requestCounts,
                   queue, awaiting, res>>

Respond(s) ==
    /\ handlers[s].pc = "respond"
    /\ res' = Response(ver, handlers[s])
    /\ handlers' = [handlers EXCEPT ![s] = IdleCtx]
    /\ UNCHANGED <<ver, now, payments, licenses, deviceLicenses,
                   activationAttempts, requestCounts, queue, awaiting>>

\* ------------------------------------------------------- create-payment

Prices == Amounts

\* The body of a create-payment request: price is NoAmount when productName
\* or price is missing.
CreateBodies == [price : Prices \cup {NoAmount}]

\* A validation that runs after the request went out to the provider.
CreateRejectLate(b) ==
    /\ ThreadFree
    /\ b.price = NoAmount
    /\ Len(awaiting) < MaxAwait
    /\ awaiting' = Append(awaiting, [orderCode |-> now, price |-> b.price])
    /\ res' = Reply("create", 400, "missing")
    /\ UNCHANGED <<ver, now, payments, licenses, deviceLicenses,
                   activationAttempts, requestCounts, handlers, queue>>

\* !productName || !price
CreateReject(b) ==
    /\ ThreadFree
    /\ b.price = NoAmount
    /\ res' = Reply("create", 400, "missing")
    /\ UNCHANGED <<ver, now, payments, licenses, deviceLicenses,
                   activationAttempts, requestCounts, handlers, queue, awaiting>>

\* From const orderCode = Date.now() to await axios.post(...): the handler
\* gives the thread back until the provider answers.
CreateBegin(b) ==
    /\ ThreadFree
    /\ b.price # NoAmount
    /\ Len(awaiting) < MaxAwait
    /\ Room(now)
    /\ awaiting' = Append(awaiting, [orderCode |-> now, price |-> b.price])
    /\ UNCHANGED <<ver, now, payments, licenses, deviceLicenses,
                   activationAttempts, requestCounts, handlers, queue, res>>

Remove(q, i) == SubSeq(q, 1, i - 1) \o SubSeq(q, i + 1, Len(q))

\* payments.set(orderCode.toString(), {orderId, status: 'pending', ...})
StoreOrder(a) == MapSet(payments, a.orderCode, Payment(a.orderCode, a.price, now))

\* How the awaited call to the provider ends: it resolves with a checkout
\* link, it resolves with a body that carries no data (PayOS reports a
\* refused request that way), or it rejects.
ProviderOutcomes == {"link", "refused", "failed"}

\* After the await.  A rejected call goes straight to the catch block; a
\* resolved one stores the order first and then reads
\* payosResponse.data.data.checkoutUrl, which throws into the catch block
\* when the body has no data.
CreateResume(i, out) ==
    /\ ThreadFree
    /\ i \in DOMAIN awaiting
    /\ awaiting' = Remove(awaiting, i)
    /\ payments' = IF out = "failed" THEN payments ELSE StoreOrder(awaiting[i])
    /\ res' = CASE out = "link" ->
                       [Reply("create", 200, "created")
                          EXCEPT !.order = awaiting[i].orderCode]
                [] out = "refused" -> Reply("create", 500, "no-link")
                [] OTHER -> Reply("create", 500, "upstream")
    /\ UNCHANGED <<ver, now, licenses, deviceLicenses, activationAttempts, requestCounts,
                   handlers, queue>>

\* ------------------------------------------------------------- get-license

HasGetLicense(v) == v \in {"v20", "v21", "v22", "v31"}

\* The order ids a client can put in the path.
PathOrders == OrderIds \cup (0..MaxTime)

\* GET /api/get-license/:orderId: the status field of the answer, the key
\* and the expiry it carries.
GetLicenseResult(o) ==
    IF o \notin DOMAIN payments
      THEN [status |-> "not_found", licenseKey |-> NoKey, expiryDate |-> NoTime]
    ELSE IF payments[o].status = "pending"
      THEN [status |-> "pending", licenseKey |-> NoKey, expiryDate |-> NoTime]
    ELSE IF payments[o].status = "completed" /\ payments[o].licenseKey # NoKey
      THEN [status |-> "completed", licenseKey |-> payments[o].licenseKey,
            expiryDate |-> IF payments[o].licenseKey \in DOMAIN licenses
                             THEN licenses[payments[o].licenseKey].expiryDate
                             ELSE NoTime]
    ELSE [status |-> "unknown", licenseKey |-> NoKey, expiryDate |-> NoTime]

GetLicense(o) ==
    /\ ThreadFree
    /\ HasGetLicense(ver)
    /\ res' = Reply("get-license", 200, GetLicenseResult(o).status)
    /\ UNCHANGED <<ver, now, payments, licenses, deviceLicenses,
                   activationAttempts, requestCounts, handlers, queue, awaiting>>

\* ----------------------------------------------------------- payment-status

HasPaymentStatus(v) == v \in {"v1", "v20"}

\* GET /api/payment-status/:orderId: 404 without a ledger entry, otherwise
\* the entry as it stands.
PaymentStatus(o) ==
    /\ ThreadFree
    /\ HasPaymentStatus(ver)
    /\ res' = IF o \in DOMAIN payments
                THEN Reply("payment-status", 200, payments[o].status)
                ELSE Reply("payment-status", 404, "not-found")
    /\ UNCHANGED <<ver, now, payments, licenses, deviceLicenses,
                   activationAttempts, requestCounts, handlers, queue, awaiting>>

\* ------------------------------------------------------------ rate limiting

\* app.use('/api/activate-license', ...) and app.use('/api/check-license', ...)
HasRateLimit(v) == v \in {"v20", "v21"}

\* rateLimitMiddleware: TRUE when it calls next() ...
RateAllowed(ip) ==
    \/ ip \notin DOMAIN requestCounts
    \/ now > requestCounts[ip].resetTime
    \/ requestCounts[ip].count < RATE_LIMIT

\* ... and the record it leaves in requestCounts.
RateAfter(ip) ==
    IF ip \notin DOMAIN requestCounts \/ now > requestCounts[ip].resetTime
      THEN MapSet(requestCounts, ip, [count |-> 1, resetTime |-> now + RateWindow])
    ELSE IF requestCounts[ip].count >= RATE_LIMIT
      THEN requestCounts
    ELSE [requestCounts EXCEPT ![ip].count = @ + 1]

\* -------------------------------------------------------- activate-license

NoDeviceId == ""      \* a request without deviceId
DeviceInputs == Devices \cup {NoDeviceId}

\* hashDeviceId: SHA-256 hex digest, modelled as an injective tagging.
hashDeviceId(d) == <<"sha256", d>>

HasLimiter(v) == v \in {"v20", "v21"}

\* A limiter that lets the request through while the count is at the limit.
AttemptAllowedAtLimit(ip) ==
    \/ ip \notin DOMAIN activationAttempts
    \/ now > activationAttempts[ip].resetTime
    \/ activationAttempts[ip].count <= AttemptLimit

\* checkActivationAttempts(ip): the value it returns ...
AttemptAllowed(ip) ==
    \/ ip \notin DOMAIN activationAttempts
    \/ now > activationAttempts[ip].resetTime
    \/ activationAttempts[ip].count < AttemptLimit

\* ... and the record it leaves in activationAttempts.
AttemptsAfter(ip) ==
    IF ip \notin DOMAIN activationAttempts \/ now > activationAttempts[ip].resetTime
      THEN MapSet(activationAttempts, ip,
                  [count |-> 1, resetTime |-> now + AttemptWindow])
    ELSE IF activationAttempts[ip].count >= AttemptLimit
      THEN activationAttempts
    ELSE [activationAttempts EXCEPT ![ip].count = @ + 1]

\* An activation that renews the license for a year.
ActivatedRenewed(v, l, d) ==
    [l EXCEPT !.status = "used",
              !.activatedAt = now,
              !.expiryDate = now + Year,
              !.deviceId = IF v # "v1" /\ d # NoDeviceId THEN hashDeviceId(d) ELSE @]

\* An activation without the device test.
RejectsNone(v, l, d) == FALSE

\* The device test of a revision on a license that exists and has not
\* expired: TRUE when the request is turned down as "used on another device"
\* (v1: as "already used").
Rejects(v, l, d) ==
    CASE v = "v1" -> l.status = "used"
      [] v = "v20" -> l.status = "used" /\ l.deviceId # hashDeviceId(d)
      [] v \in {"v21", "v22"} ->
           l.status = "used" /\ d # NoDeviceId
             /\ l.deviceId # NoDevice /\ l.deviceId # hashDeviceId(d)
      [] OTHER ->
           d # NoDeviceId /\ l.deviceId # NoDevice /\ l.deviceId # hashDeviceId(d)

\* v2.0.0 answers a used license on its own device without writing anything.
Reactivation(v, l, d) ==
    v = "v20" /\ l.status = "used" /\ l.deviceId = hashDeviceId(d)

\* The license after a successful activation: v1 never stores a device,
\* the others store the hash when a deviceId came with the request.
Activated(v, l, d) ==
    [l EXCEPT !.status = "used",
              !.activatedAt = now,
              !.deviceId = IF v # "v1" /\ d # NoDeviceId THEN hashDeviceId(d) ELSE @]

\* The branch of POST /api/activate-license a request ends in.
ActivateTag(v, ip, text, d) ==
    IF HasRateLimit(v) /\ ~RateAllowed(ip) THEN "throttled"
    ELSE IF HasLimiter(v) /\ ~AttemptAllowed(ip) THEN "limited"
    ELSE IF ~text.present THEN "missing-key"
    ELSE IF v = "v20" /\ d = NoDeviceId THEN "missing-device"
    ELSE IF TrimUpper(text) \notin DOMAIN licenses THEN "not-found"
    ELSE IF Expired(licenses[TrimUpper(text)], now) THEN "expired"
    ELSE IF Reactivation(v, licenses[TrimUpper(text)], d) THEN "reactivation"
    ELSE IF Rejects(v, licenses[TrimUpper(text)], d) THEN "mismatch"
    ELSE "activated"

ActivateCode(tag) ==
    CASE tag \in {"throttled", "limited"} -> 429
      [] tag \in {"missing-key", "missing-device", "expired", "mismatch"} -> 400
      [] tag = "not-found" -> 404
      [] OTHER -> 200

ActivateLicense(ip, text, d) ==
    LET tag == ActivateTag(ver, ip, text, d)
        k == TrimUpper(text)
    IN  /\ ThreadFree
        /\ requestCounts' =
             IF HasRateLimit(ver) THEN RateAfter(ip) ELSE requestCounts
        /\ activationAttempts' =
             IF HasLimiter(ver) /\ tag # "throttled"
               THEN AttemptsAfter(ip)
               ELSE activationAttempts
        /\ licenses' =
             IF tag = "activated"
               THEN [licenses EXCEPT ![k] = Activated(ver, licenses[k], d)]
               ELSE licenses
        /\ deviceLicenses' =
             IF tag = "activated" /\ ver = "v31" /\ d # NoDeviceId
               THEN MapSet(deviceLicenses, hashDeviceId(d), k)
               ELSE deviceLicenses
        /\ res' = Reply("activate", ActivateCode(tag), tag)
        /\ UNCHANGED <<ver, now, payments, handlers, queue, awaiting>>

\* ------------------------------------------------------------- bind-device

\* POST /api/bind-device (v3.1.0): the key is looked up as it was sent.
BindTag(text, d) ==
    IF ~text.present \/ d = NoDeviceId THEN "missing"
    ELSE IF ~(Exact(text) /\ text.key \in DOMAIN licenses) THEN "not-found"
    ELSE "bound"

BindDevice(text, d) ==
    LET tag == BindTag(text, d)
    IN  /\ ThreadFree
        /\ ver = "v31"
        /\ licenses' =
             IF tag = "bound"
               THEN [licenses EXCEPT ![text.key].deviceId = hashDeviceId(d)]
               ELSE licenses
        /\ deviceLicenses' =
             IF tag = "bound"
               THEN MapSet(deviceLicenses, hashDeviceId(d), text.key)
               ELSE deviceLicenses
        /\ res' = Reply("bind-device",
                        CASE tag = "missing" -> 400 [] tag = "not-found" -> 404
                          [] OTHER -> 200,
                        tag)
        /\ UNCHANGED <<ver, now, payments, activationAttempts, requestCounts,
                       handlers, queue, awaiting>>

\* ------------------------------------------------------------ check-license

\* POST /api/check-license is mounted by v1 and v2.0.0.
HasCheckLicense(v) == v \in {"v1", "v20"}

\* The branch of check-license a request ends in; v2.0.0 also compares the
\* device when both the license and the request carry one.
CheckTag(v, ip, text, d) ==
    IF HasRateLimit(v) /\ ~RateAllowed(ip) THEN "throttled"
    ELSE IF ~text.present THEN "no-key"
    ELSE IF TrimUpper(text) \notin DOMAIN licenses THEN "not-found"
    ELSE IF Expired(licenses[TrimUpper(text)], now) THEN "expired"
    ELSE IF /\ v = "v20"
            /\ licenses[TrimUpper(text)].deviceId # NoDevice
            /\ d # NoDeviceId
            /\ licenses[TrimUpper(text)].deviceId # hashDeviceId(d)
      THEN "wrong-device"
    ELSE "valid"

\* Every branch of the handler answers res.json: HTTP 200 with valid true
\* or false; the request is counted on its way in where the limiter is mounted.
CheckLicense(ip, text, d) ==
    LET tag == CheckTag(ver, ip, text, d)
    IN  /\ ThreadFree
        /\ HasCheckLicense(ver)
        /\ requestCounts' =
             IF HasRateLimit(ver) THEN RateAfter(ip) ELSE requestCounts
        /\ res' = Reply("check-license", IF tag = "throttled" THEN 429 ELSE 200, tag)
        /\ UNCHANGED <<ver, now, payments, licenses, deviceLicenses,
                       activationAttempts, handlers, queue, awaiting>>

\* ----------------------------------------------------- check-device-license

\* The branch of POST /api/check-device-license (v3.1.0): the license is
\* found through the device index.
CheckDeviceTag(d) ==
    IF d = NoDeviceId THEN "no-device"
    ELSE IF hashDeviceId(d) \notin DOMAIN deviceLicenses THEN "no-license"
    ELSE IF deviceLicenses[hashDeviceId(d)] \notin DOMAIN licenses THEN "not-found"
    ELSE IF Expired(licenses[deviceLicenses[hashDeviceId(d)]], now) THEN "expired"
    ELSE "valid"

\* A lookup that forgets the index entry of a license it finds expired.
CheckDeviceLicenseForgetting(d) ==
    /\ ThreadFree
    /\ ver = "v31"
    /\ res' = Reply("check-device-license", 200, CheckDeviceTag(d))
    /\ deviceLicenses' =
         IF CheckDeviceTag(d) = "expired"
           THEN [h \in DOMAIN deviceLicenses \ {hashDeviceId(d)} |-> deviceLicenses[h]]
           ELSE deviceLicenses
    /\ UNCHANGED <<ver, now, payments, licenses, activationAttempts,
                   requestCounts, handlers, queue, awaiting>>

CheckDeviceLicense(d) ==
    /\ ThreadFree
    /\ ver = "v31"
    /\ res' = Reply("check-device-license", 200, CheckDeviceTag(d))
    /\ UNCHANGED <<ver, now, payments, licenses, deviceLicenses,
                   activationAttempts, requestCounts, handlers, queue, awaiting>>

\* ------------------------------------------------------------------- clock

Tick ==
    /\ ThreadFree
    /\ now < MaxTime
    /\ now' = now + 1
    /\ UNCHANGED <<ver, payments, licenses, deviceLicenses, activationAttempts, requestCounts,
                   handlers, queue, awaiting, res>>

\* ------------------------------------------------------------ specification

Init ==
    /\ ver \in Versions
    /\ now = 0
    /\ payments = <<>>
    /\ licenses = <<>>
    /\ deviceLicenses = <<>>
    /\ activationAttempts = <<>>
    /\ requestCounts = <<>>
    /\ handlers = [s \in Slots |-> IdleCtx]
    /\ queue = <<>>
    /\ awaiting = <<>>
    /\ res = NoRes

\* The texts a client sends as licenseKey: a key of this revision in any
\* spelling, or nothing.
KeyInputs == { t \in KeyTexts : t.key \in generateLicenseKey(ver) } \cup {NoKeyText}

Next ==
    \/ \E r \in Confirmations(ver) : Confirm(r)
    \/ \E b \in CreateBodies : CreateReject(b)
    \/ \E b \in CreateBodies : CreateBegin(b)
    \/ \E i \in 1..MaxAwait, out \in ProviderOutcomes : CreateResume(i, out)
    \/ \E o \in PathOrders : GetLicense(o)
    \/ \E o \in PathOrders : PaymentStatus(o)
    \/ \E ip \in Ips, t \in KeyInputs, d \in DeviceInputs : ActivateLicense(ip, t, d)
    \/ \E t \in KeyInputs, d \in DeviceInputs : BindDevice(t, d)
    \/ \E ip \in Ips, t \in KeyInputs, d \in DeviceInputs : CheckLicense(ip, t, d)
    \/ \E d \in DeviceInputs : CheckDeviceLicense(d)
    \/ Tick

Spec == Init /\ [][Next]_vars

\* The payment side alone: order creation, the two confirmation channels and
\* the polling of the result.
NextPay ==
    \/ \E r \in Confirmations(ver) : Confirm(r)
    \/ \E b \in CreateBodies : CreateReject(b)
    \/ \E b \in CreateBodies : CreateBegin(b)
    \/ \E i \in 1..MaxAwait, out \in ProviderOutcomes : CreateResume(i, out)
    \/ \E o \in PathOrders : GetLicense(o)
    \/ Tick

SpecPay == Init /\ [][NextPay]_vars

\* The two confirmation handlers statement by statement, in the revisions
\* that reconcile on both channels, with order creation around them.
InitLoop == Init /\ RedirectReconciles(ver)

\* The order whose payment the provider confirms on both channels.
PaidOrders == {0}

LoopConfirmations ==
    { PayOSBody(o, a) : o \in PaidOrders, a \in Amounts }
      \cup { PaidReturn(o) : o \in PaidOrders }

NextLoop ==
    \/ \E r \in LoopConfirmations : Begin(r)
    \/ \E r \in LoopConfirmations : Enqueue(r)
    \/ Dequeue
    \/ \E s \in Slots : Lookup(s)
    \/ \E s \in Slots : Check(s)
    \/ \E s \in Slots : Mint(s)
    \/ \E s \in Slots : Respond(s)
    \/ \E b \in CreateBodies : CreateBegin(b)
    \/ \E i \in 1..MaxAwait, out \in ProviderOutcomes : CreateResume(i, out)
    \/ Tick

SpecLoop == InitLoop /\ [][NextLoop]_vars

\* The license side: licenses come into being through the confirmations a
\* revision reconciles, and are then activated and bound.
ActConfirmations(v) ==
    { r \in WebhookBodies : Reconciles(v, r) /\ RawOrder(v, r) \in PaidOrders }

\* An address that has sent fewer than MaxRequests requests to the limited
\* routes in the running window.
Quiet(ip) ==
    IF ip \in DOMAIN requestCounts /\ now <= requestCounts[ip].resetTime
      THEN requestCounts[ip].count < MaxRequests
      ELSE TRUE

\* The key a client holds and presents, in either spelling, or nothing.
HeldKeyInputs ==
    { t \in KeyInputs : t.present /\ t.key[2] = "0A1B" } \cup {NoKeyText}

NextAct ==
    \/ \E r \in ActConfirmations(ver) : Confirm(r)
    \/ \E b \in CreateBodies : CreateBegin(b)
    \/ \E i \in 1..MaxAwait, out \in ProviderOutcomes : CreateResume(i, out)
    \/ \E ip \in Ips, t \in HeldKeyInputs, d \in DeviceInputs :
          Quiet(ip) /\ ActivateLicense(ip, t, d)
    \/ \E t \in HeldKeyInputs, d \in DeviceInputs : BindDevice(t, d)
    \/ \E ip \in Ips, t \in HeldKeyInputs, d \in DeviceInputs :
          Quiet(ip) /\ CheckLicense(ip, t, d)
    \/ \E d \in DeviceInputs : CheckDeviceLicense(d)
    \/ Tick

SpecAct == Init /\ [][NextAct]_vars

\* Every route that reads or writes a license or an order, used from one
\* device.
ReadDevices == {"devX", NoDeviceId}

NextRead ==
    \/ \E r \in ActConfirmations(ver) : Confirm(r)
    \/ \E b \in CreateBodies : CreateBegin(b)
    \/ \E i \in 1..MaxAwait, out \in ProviderOutcomes : CreateResume(i, out)
    \/ \E ip \in Ips, t \in HeldKeyInputs, d \in ReadDevices :
          Quiet(ip) /\ ActivateLicense(ip, t, d)
    \/ \E t \in HeldKeyInputs, d \in ReadDevices : BindDevice(t, d)
    \/ \E ip \in Ips, t \in HeldKeyInputs, d \in ReadDevices :
          Quiet(ip) /\ CheckLicense(ip, t, d)
    \/ \E d \in ReadDevices : CheckDeviceLicense(d)
    \/ \E o \in PathOrders : GetLicense(o)
    \/ \E o \in PathOrders : PaymentStatus(o)
    \/ Tick

SpecRead == Init /\ [][NextRead]_vars

\* The amounts a webhook can carry against the price of the order: another
\* amount, or none.
WebhookAmounts == {200, NoAmount}

AmountConfirmations(v) ==
    { r \in { PayOSBody(o, a) : o \in OrderIds, a \in WebhookAmounts }
               \cup { PaidBody(o, a) : o \in OrderIds, a \in WebhookAmounts } :
        Reconciles(v, r) }

\* Orders created at the price, confirmed by webhooks that carry something
\* else.
NextAmount ==
    \/ \E r \in AmountConfirmations(ver) : Confirm(r)
    \/ \E b \in CreateBodies : CreateBegin(b)
    \/ \E i \in 1..MaxAwait, out \in ProviderOutcomes : CreateResume(i, out)
    \/ Tick

SpecAmount == Init /\ [][NextAmount]_vars

\* The two request counters of v2.0.0 and v2.1.0: one client that activates
\* the key it holds from its device, or sends nothing at all, as often as it
\* likes.
InitLimit == Init /\ HasLimiter(ver)

LimitKeyInputs == { t \in HeldKeyInputs : ~t.present \/ Exact(t) }

NextLimit ==
    \/ \E r \in ActConfirmations(ver) : Confirm(r)
    \/ \E ip \in Ips, t \in LimitKeyInputs : ActivateLicense(ip, t, "devX")
    \/ \E ip \in Ips : CheckLicense(ip, NoKeyText, NoDeviceId)
    \/ Tick

SpecLimit == InitLimit /\ [][NextLimit]_vars

\* The device side of v3.1.0: two paid orders, their licenses, and the
\* devices that activate, bind and look them up.
InitDev == Init /\ ver = "v31"

DevConfirmations == { PayOSBody(o, a) : o \in OrderIds, a \in Amounts }

\* The keys as they were issued.
IssuedKeyInputs == { t \in KeyInputs : t.present /\ Exact(t) }

NextDev ==
    \/ \E r \in DevConfirmations : Confirm(r)
    \/ \E ip \in Ips, t \in IssuedKeyInputs, d \in DeviceInputs :
          ActivateLicense(ip, t, d)
    \/ \E t \in IssuedKeyInputs, d \in DeviceInputs : BindDevice(t, d)
    \/ \E d \in DeviceInputs : CheckDeviceLicense(d)
    \/ Tick

SpecDev == InitDev /\ [][NextDev]_vars

\* ------------------------------------------------------ payment properties

\* The licenses minted for an order.
LicensesOf(o) == { k \in DOMAIN licenses : licenses[k].orderId = o }

\* The provider's return after a payment: code 00, status PAID, an order.
SuccessRedirect(r) ==
    r.ep = "redirect" /\ r.code = "00" /\ r.status = "PAID" /\ r.orderCode \in OrderIds

\* A confirmation the running revision takes as a success, on either channel.
SuccessConfirmation(r) == Reconciles(ver, r) \/ SuccessRedirect(r)

Completes(o) == o \in DOMAIN payments /\ payments[o].status = "completed"

\* C1: whatever confirmations have been delivered, no order has more than
\* one license.
C1_OneLicensePerOrder ==
    \A o \in OrderIds \cup {NoOrder} : Cardinality(LicensesOf(o)) <= 1

\* C2: a success confirmation for an order that is already completed leaves
\* the ledger and the registry as they were, and get-license answers for the
\* order as before.
C2_CompletedConfirmIsNoOp ==
    [][\A r \in Confirmations(ver) :
         (/\ Completes(RawOrder(ver, r))
          /\ SuccessConfirmation(r)
          /\ res'.ep = r.ep
          /\ Confirm(r))
           => /\ payments' = payments
              /\ licenses' = licenses
              /\ GetLicenseResult(RawOrder(ver, r))' = GetLicenseResult(RawOrder(ver, r))]_vars

\* A paid return has been answered for an order that was completed before
\* it came: the handler minted nothing.
C2_RepeatServed ==
    /\ RedirectReconciles(ver)
    /\ res.ep = "redirect" /\ res.tag = "page-success" /\ ~res.minted
    /\ res.order \in OrderIds
    /\ Completes(res.order)
    /\ Cardinality(LicensesOf(res.order)) = 1

\* C4: a success confirmation for an order the ledger does not hold leaves a
\* completed order for it in the ledger and a license for it in the registry.
C4_UnknownOrderConfirmed ==
    [][\A r \in Confirmations(ver) :
         (/\ SuccessConfirmation(r)
          /\ RawOrder(ver, r) \in OrderIds
          /\ RawOrder(ver, r) \notin DOMAIN payments
          /\ Confirm(r))
           => /\ RawOrder(ver, r) \in DOMAIN payments'
              /\ payments'[RawOrder(ver, r)].status = "completed"
              /\ \E k \in DOMAIN licenses' :
                   licenses'[k].orderId = RawOrder(ver, r)]_vars

\* C5: a paid return for a pending order completes it and mints its license,
\* so that get-license answers completed with a key.
C5_RedirectAloneCompletes ==
    [][\A r \in Confirmations(ver) :
         (/\ SuccessRedirect(r)
          /\ r.orderCode \in DOMAIN payments
          /\ payments[r.orderCode].status = "pending"
          /\ Confirm(r))
           => /\ GetLicenseResult(r.orderCode)'.status = "completed"
              /\ GetLicenseResult(r.orderCode)'.licenseKey # NoKey]_vars

\* C6: the webhook answers every delivery with the success acknowledgement.
C6_WebhookAlwaysAcks ==
    res.ep = "webhook" => res.code = 200 /\ res.tag = "ack"

\* C7: a completed order stays completed, with the license key and the
\* completion time it has.
C7_CompletedIsFinal ==
    [][\A o \in DOMAIN payments :
         payments[o].status = "completed"
           => /\ o \in DOMAIN payments'
              /\ payments'[o].status = "completed"
              /\ payments'[o].licenseKey = payments[o].licenseKey
              /\ payments'[o].completedAt = payments[o].completedAt]_vars

\* ------------------------------------------------- concurrency properties

Running == { s \in Slots : handlers[s].pc # "idle" }

\* C3: the statements of two confirmation handlers never interleave: one
\* handler runs at a time, a license is minted only for an order that is not
\* completed at that very moment, and the confirmation that waited behind a
\* handler that minted for the same order mints nothing.
C3_HandlersRunToCompletion ==
    /\ [](Cardinality(Running) <= 1)
    /\ [][\A s \in Slots :
            Mint(s) => /\ ~Completes(handlers[s].order)
                       /\ Completes(handlers[s].order)'
                       /\ Cardinality(LicensesOf(handlers[s].order)')
                            <= Cardinality(LicensesOf(handlers[s].order)) + 1]_vars
    /\ [][\A s \in Slots :
            (/\ handlers[s].pc # "idle" /\ handlers[s].queued
             /\ res.ep \in {"webhook", "redirect"} /\ res.minted
             /\ res.order = RawOrder(ver, handlers[s].req))
              => payments' = payments /\ licenses' = licenses]_vars

\* The paid return waited behind the webhook for the same order; the webhook
\* minted, the return has found the order completed and is about to answer.
C3_ReturnBehindWebhook ==
    \E s \in Slots :
      /\ handlers[s].pc = "respond" /\ handlers[s].queued
      /\ handlers[s].req.ep = "redirect" /\ ~handlers[s].minted
      /\ res.ep = "webhook" /\ res.minted
      /\ res.order = handlers[s].order
      /\ Completes(res.order)
      /\ Cardinality(LicensesOf(res.order)) = 1

\* ------------------------------------------------- activation properties

\* The license is activated and bound to the device.
BoundTo(l, d) == l.status = "used" /\ l.deviceId = hashDeviceId(d)

\* C8 as stated: activating a license bound to X from another device Y is
\* answered with the device mismatch and changes nothing.
C8_OtherDeviceMismatch ==
    [][\A ip \in Ips, t \in KeyInputs, x \in Devices, y \in Devices :
         (/\ t.present /\ t.key \in DOMAIN licenses
          /\ x # y
          /\ BoundTo(licenses[t.key], x)
          /\ ActivateLicense(ip, t, y))
           => /\ res'.tag = "mismatch"
              /\ licenses' = licenses
              /\ deviceLicenses' = deviceLicenses]_vars

\* C8: activating a license bound to X from another device Y fails and
\* changes no license; the answer is the device mismatch when the license
\* has not expired and the limiter lets the request through.
C8_OtherDeviceRefused ==
    [][\A ip \in Ips, t \in KeyInputs, x \in Devices, y \in Devices :
         (/\ t.present /\ t.key \in DOMAIN licenses
          /\ x # y
          /\ BoundTo(licenses[t.key], x)
          /\ ActivateLicense(ip, t, y))
           => /\ res'.code >= 400
              /\ licenses' = licenses
              /\ deviceLicenses' = deviceLicenses
              /\ (~Expired(licenses[t.key], now)
                    /\ ActivateTag(ver, ip, t, y) \notin {"throttled", "limited"})
                   => res'.tag = "mismatch" /\ res'.code = 400]_vars

\* A request from another device has just been turned down on a license
\* that is bound.
C8_MismatchAnswered ==
    /\ res.ep = "activate" /\ res.tag = "mismatch"
    /\ \E k \in DOMAIN licenses, x \in Devices : BoundTo(licenses[k], x)

\* C9: a device binding, once set, is never replaced by another device's.
C9_BindingIsFinal ==
    [][\A k \in DOMAIN licenses :
         (licenses[k].deviceId # NoDevice /\ k \in DOMAIN licenses')
           => licenses'[k].deviceId = licenses[k].deviceId]_vars

\* C10: activating again from the bound device succeeds and changes neither
\* the license (activatedAt included) nor the device index.
C10_ReactivationIsIdempotent ==
    [][\A ip \in Ips, t \in KeyInputs, x \in Devices :
         (/\ t.present /\ t.key \in DOMAIN licenses
          /\ BoundTo(licenses[t.key], x)
          /\ ~Expired(licenses[t.key], now)
          /\ ActivateTag(ver, ip, t, x) \notin {"throttled", "limited"}
          /\ ActivateLicense(ip, t, x))
           => /\ res'.code = 200
              /\ licenses' = licenses
              /\ deviceLicenses' = deviceLicenses]_vars

\* --------------------------------------------------- validity properties

\* The answer reports a failure: an error status, or valid: false.
Failure(r) ==
    \/ r.code >= 400
    \/ r.ep \in {"check-license", "check-device-license"} /\ r.tag # "valid"

\* The request names a license of the registry.
Names(t) == t.present /\ TrimUpper(t) \in DOMAIN licenses

\* C11: every expiry check answers expired from the instant of the stored
\* expiryDate on, that instant included, and not before it.
C11_ExpiryBoundary ==
    [][/\ \A ip \in Ips, t \in KeyInputs, d \in DeviceInputs :
            (/\ Names(t)
             /\ CheckTag(ver, ip, t, d) # "throttled"
             /\ CheckLicense(ip, t, d))
              => (res'.tag = "expired" <=> now >= licenses[TrimUpper(t)].expiryDate)
       /\ \A ip \in Ips, t \in KeyInputs, d \in DeviceInputs :
            (/\ Names(t)
             /\ ActivateTag(ver, ip, t, d) \notin {"throttled", "limited", "missing-device"}
             /\ ActivateLicense(ip, t, d))
              => (res'.tag = "expired" <=> now >= licenses[TrimUpper(t)].expiryDate)
       /\ \A d \in Devices :
            (/\ hashDeviceId(d) \in DOMAIN deviceLicenses
             /\ deviceLicenses[hashDeviceId(d)] \in DOMAIN licenses
             /\ CheckDeviceLicense(d))
              => (res'.tag = "expired"
                    <=> now >= licenses[deviceLicenses[hashDeviceId(d)]].expiryDate)]_vars

\* C12: activate-license, bind-device and check-license report a failure for
\* a license whose expiryDate has passed, and change neither the registry
\* nor the device index; so does check-device-license for the license of an
\* indexed device.
C12_ExpiredIsRejected ==
    [][/\ \A ip \in Ips, t \in KeyInputs, d \in DeviceInputs :
            (/\ Names(t)
             /\ Expired(licenses[TrimUpper(t)], now)
             /\ \/ ActivateLicense(ip, t, d)
                \/ BindDevice(t, d)
                \/ CheckLicense(ip, t, d))
              => /\ Failure(res')
                 /\ licenses' = licenses
                 /\ deviceLicenses' = deviceLicenses
       /\ \A d \in Devices :
            (/\ hashDeviceId(d) \in DOMAIN deviceLicenses
             /\ deviceLicenses[hashDeviceId(d)] \in DOMAIN licenses
             /\ Expired(licenses[deviceLicenses[hashDeviceId(d)]], now)
             /\ CheckDeviceLicense(d))
              => /\ Failure(res')
                 /\ licenses' = licenses
                 /\ deviceLicenses' = deviceLicenses]_vars

\* C13: a license's expiryDate is its mint time plus one year in every
\* state, and the expiryDate stored under a key changes only when a newly
\* minted license is stored under it.
C13_ExpiryIsMintPlusYear ==
    /\ [](\A k \in DOMAIN licenses :
            licenses[k].expiryDate = licenses[k].createdAt + Year)
    /\ [][\A k \in DOMAIN licenses :
            /\ k \in DOMAIN licenses'
            /\ licenses'[k].expiryDate # licenses[k].expiryDate
                 => res'.minted /\ licenses'[k] = License(k, res'.order, now)]_vars

\* A license activated from a device after the clock moved on from its mint
\* time, with the expiry it was minted with.
C13_ActivatedLater ==
    \E k \in DOMAIN licenses :
      /\ licenses[k].status = "used" /\ licenses[k].deviceId # NoDevice
      /\ licenses[k].activatedAt > licenses[k].createdAt
      /\ licenses[k].expiryDate = licenses[k].createdAt + Year

\* C14: a key sent lower-cased and padded with blanks resolves to the
\* license of the exact key at activate-license, check-license and
\* bind-device.
C14_LookupNormalises ==
    [][\A ip \in Ips, t \in KeyInputs, d \in Devices :
         (t.present /\ t.key \in DOMAIN licenses /\ t.lower /\ t.padded)
           => /\ ActivateLicense(ip, t, d) => res'.tag # "not-found"
              /\ CheckLicense(ip, t, d) => res'.tag # "not-found"
              /\ BindDevice(t, d) => /\ res'.tag = "bound"
                                     /\ licenses'[t.key].deviceId = hashDeviceId(d)]_vars

\* C15: activate-license with a key that names no license answers not-found
\* and changes neither the registry, the ledger nor the device index.
C15_UnknownKeyNotFound ==
    [][\A ip \in Ips, t \in KeyInputs, d \in DeviceInputs :
         (t.present /\ t.key \notin DOMAIN licenses /\ ActivateLicense(ip, t, d))
           => /\ res'.tag = "not-found" /\ res'.code = 404
              /\ licenses' = licenses
              /\ payments' = payments
              /\ deviceLicenses' = deviceLicenses]_vars

\* The license is active, without a device, and has not expired.
ActiveUnbound(l) ==
    l.status = "active" /\ l.deviceId = NoDevice /\ ~Expired(l, now)

\* C16: activating an active, unbound, unexpired license with a deviceId
\* succeeds and leaves it used, with activatedAt set and bound to the hash
\* of that deviceId.
C16_ActivationBinds ==
    [][\A ip \in Ips, t \in KeyInputs, d \in Devices :
         (/\ Names(t)
          /\ ActiveUnbound(licenses[TrimUpper(t)])
          /\ ActivateLicense(ip, t, d))
           => /\ res'.code = 200
              /\ licenses'[TrimUpper(t)].status = "used"
              /\ licenses'[TrimUpper(t)].activatedAt = now
              /\ licenses'[TrimUpper(t)].deviceId = hashDeviceId(d)]_vars

\* C17: activating an active, unbound, unexpired license without a deviceId
\* succeeds and leaves it used.
C17_DeviceIdOptional ==
    [][\A ip \in Ips, t \in KeyInputs :
         (/\ Names(t)
          /\ ActiveUnbound(licenses[TrimUpper(t)])
          /\ ActivateLicense(ip, t, NoDeviceId))
           => /\ res'.code = 200
              /\ licenses'[TrimUpper(t)].status = "used"]_vars

\* C18: a license is used exactly when it is bound to a device.
C18_UsedIffBound ==
    \A k \in DOMAIN licenses :
      licenses[k].status = "used" <=> licenses[k].deviceId # NoDevice

\* C19: get-license answers not_found exactly for an order the ledger does
\* not hold, pending exactly for a pending order, and otherwise completed
\* with the order's key and the expiry of the license under that key; it
\* never answers unknown.
C19_GetLicenseThreeResults ==
    /\ [](\A o \in PathOrders :
            LET a == GetLicenseResult(o)
            IN  /\ a.status \in {"not_found", "pending", "completed"}
                /\ a.status = "not_found" <=> o \notin DOMAIN payments
                /\ a.status = "pending"
                     <=> (o \in DOMAIN payments /\ payments[o].status = "pending")
                /\ a.status = "completed"
                     => /\ Completes(o)
                        /\ a.licenseKey = payments[o].licenseKey
                        /\ a.licenseKey \in DOMAIN licenses
                        /\ a.expiryDate = licenses[a.licenseKey].expiryDate)
    /\ [][\A o \in PathOrders :
            GetLicense(o) => /\ res'.tag = GetLicenseResult(o).status
                             /\ res'.tag # "unknown"]_vars

\* get-license has just answered completed for a completed order.
C19_CompletedAnswered ==
    /\ res.ep = "get-license" /\ res.tag = "completed"
    /\ \E o \in PathOrders : Completes(o) /\ payments[o].licenseKey \in DOMAIN licenses

\* C20: when the call to the provider yields no checkout link, create-payment
\* answers 5xx and the ledger is as it was before the request.
C20_FailedCreateStoresNothing ==
    [][\A i \in 1..MaxAwait, out \in ProviderOutcomes \ {"link"} :
         CreateResume(i, out) => res'.code >= 500 /\ payments' = payments]_vars

\* ------------------------------------------------- order creation properties

\* C21: when create-payment succeeds the answer carries the order id, the
\* ledger holds that order as pending without a license key, and no license
\* exists for it.
C21_CreatedOrderIsFresh ==
    [][\A i \in DOMAIN awaiting, o \in PathOrders :
         (o = awaiting[i].orderCode /\ CreateResume(i, "link"))
           => /\ res'.code = 200 /\ res'.order = o
              /\ o \in DOMAIN payments'
              /\ payments'[o].status = "pending"
              /\ payments'[o].licenseKey = NoKey
              /\ LicensesOf(o)' = {}]_vars

\* C22: a create-payment request without productName or price is answered
\* 400 by the validation alone: no request goes out to the provider and the
\* ledger and the registry stay as they were.
C22_MissingFieldDeclined ==
    [][\A b \in CreateBodies :
         (b.price = NoAmount /\ (CreateReject(b) \/ CreateBegin(b)))
           => /\ res'.ep = "create" /\ res'.code = 400
              /\ awaiting' = awaiting
              /\ payments' = payments
              /\ licenses' = licenses]_vars

\* create-payment has just declined a request while the ledger held an order.
C22_DeclinedWithLedger ==
    res.ep = "create" /\ res.code = 400 /\ res.tag = "missing" /\ payments # <<>>

\* C23: the webhook {code: "00", success: true, data: {orderCode, amount}}
\* for a pending order completes it and creates a license for that order
\* that expires a year later.
C23_PlainWebhookCompletes ==
    [][\A o \in OrderIds, a \in Amounts :
         (/\ o \in DOMAIN payments
          /\ payments[o].status = "pending"
          /\ Confirm(PlainBody(o, a)))
           => /\ Completes(o)'
              /\ \E k \in DOMAIN licenses' :
                    /\ licenses'[k].orderId = o
                    /\ licenses'[k].expiryDate = now + Year]_vars

\* A success confirmation that names no order.
Orderless ==
    { PayOSBody(NoOrder, a) : a \in Amounts }
      \cup { PaidBody(NoOrder, a) : a \in Amounts }
      \cup { PaidReturn(NoOrder) }

\* C24: a success confirmation without an order id mints nothing, leaves
\* the ledger as it was and is answered without a server error.
C24_OrderlessIsNoOp ==
    [][\A r \in Orderless \cap Confirmations(ver) :
         Confirm(r) => /\ licenses' = licenses
                       /\ payments' = payments
                       /\ res'.code < 500]_vars

\* C25: a confirmation that mints adds a key the registry did not hold and
\* leaves every license it held as it was; no two orders carry the same
\* license key.
C25_MintNeverReusesKey ==
    /\ [][\A r \in Confirmations(ver) :
            (Confirm(r) /\ res'.minted)
              => /\ DOMAIN licenses' # DOMAIN licenses
                 /\ \A k \in DOMAIN licenses : licenses'[k] = licenses[k]]_vars
    /\ [](\A o1, o2 \in DOMAIN payments :
            (o1 # o2 /\ payments[o1].licenseKey # NoKey)
              => payments[o1].licenseKey # payments[o2].licenseKey)

\* C26: a create-payment that succeeds right after another that succeeded
\* answers a different order id, and the ledger holds both orders.
C26_OrderIdsUnique ==
    [][\A i \in DOMAIN awaiting :
         (/\ res.ep = "create" /\ res.tag = "created"
          /\ res.order \in DOMAIN payments
          /\ CreateResume(i, "link"))
           => /\ res'.order # res.order
              /\ {res.order, res'.order} \subseteq DOMAIN payments']_vars

\* C27: storing an order under an id the ledger already holds fails with an
\* error answer and leaves the order that was there as it was.
C27_DuplicateOrderRefused ==
    [][\A i \in DOMAIN awaiting, out \in ProviderOutcomes \ {"failed"} :
         (awaiting[i].orderCode \in DOMAIN payments /\ CreateResume(i, out))
           => /\ res'.code >= 400
              /\ payments' = payments]_vars

\* ---------------------------------------------------- device index properties

C29_IndexAgreesWithRegistry ==
    /\ \A h \in DOMAIN deviceLicenses :
         /\ deviceLicenses[h] \in DOMAIN licenses
         /\ licenses[deviceLicenses[h]].deviceId = h
    /\ \A h1, h2 \in DOMAIN deviceLicenses :
         h1 # h2 => deviceLicenses[h1] # deviceLicenses[h2]

\* ------------------------------------------------------- read-only properties

\* The ledger, the registry, the device index and the attempt records.
Stores == <<payments, licenses, deviceLicenses, activationAttempts>>

\* C30 as stated: activate-license and bind-device leave the ledger alone
\* and create no license, and get-license, check-license,
\* check-device-license and payment-status change no state at all.
C30_ReadsChangeNothing ==
    [][/\ (/\ res'.ep = "activate"
           /\ \E ip \in Ips, t \in HeldKeyInputs, d \in ReadDevices :
                ActivateLicense(ip, t, d))
            => payments' = payments /\ DOMAIN licenses' = DOMAIN licenses
       /\ (/\ res'.ep = "bind-device"
           /\ \E t \in HeldKeyInputs, d \in ReadDevices : BindDevice(t, d))
            => payments' = payments /\ DOMAIN licenses' = DOMAIN licenses
       /\ (/\ res'.ep = "check-license"
           /\ \E ip \in Ips, t \in HeldKeyInputs, d \in ReadDevices :
                CheckLicense(ip, t, d))
            => Stores' = Stores /\ requestCounts' = requestCounts
       /\ (/\ res'.ep = "check-device-license"
           /\ \E d \in ReadDevices : CheckDeviceLicense(d))
            => Stores' = Stores /\ requestCounts' = requestCounts
       /\ (/\ res'.ep \in {"get-license", "payment-status"}
           /\ \E o \in PathOrders : GetLicense(o) \/ PaymentStatus(o))
            => Stores' = Stores /\ requestCounts' = requestCounts]_vars

\* C30: activate-license and bind-device leave the ledger alone and create
\* no license; get-license, check-license, check-device-license and
\* payment-status change neither the ledger, the registry, the device index
\* nor the attempt records, and all but check-license leave the request
\* counter alone; check-license changes the request counter only where the
\* rate limiter is mounted.
C30_ReadsKeepStores ==
    [][/\ (/\ res'.ep = "activate"
           /\ \E ip \in Ips, t \in HeldKeyInputs, d \in ReadDevices :
                ActivateLicense(ip, t, d))
            => payments' = payments /\ DOMAIN licenses' = DOMAIN licenses
       /\ (/\ res'.ep = "bind-device"
           /\ \E t \in HeldKeyInputs, d \in ReadDevices : BindDevice(t, d))
            => payments' = payments /\ DOMAIN licenses' = DOMAIN licenses
       /\ (/\ res'.ep = "check-license"
           /\ \E ip \in Ips, t \in HeldKeyInputs, d \in ReadDevices :
                CheckLicense(ip, t, d))
            => /\ Stores' = Stores
               /\ ~HasRateLimit(ver) => requestCounts' = requestCounts
       /\ (/\ res'.ep = "check-device-license"
           /\ \E d \in ReadDevices : CheckDeviceLicense(d))
            => Stores' = Stores /\ requestCounts' = requestCounts
       /\ (/\ res'.ep \in {"get-license", "payment-status"}
           /\ \E o \in PathOrders : GetLicense(o) \/ PaymentStatus(o))
            => Stores' = Stores /\ requestCounts' = requestCounts]_vars

\* check-license has just answered valid behind the rate limiter, with an
\* order in the ledger and the request counted.
C30_CheckCounted ==
    /\ res.ep = "check-license" /\ res.tag = "valid"
    /\ payments # <<>>
    /\ requestCounts # <<>>

\* ------------------------------------------------ notification properties

\* The notification indicates success: a webhook with code "00" and success
\* true, a redirect with code "00" and status PAID that is not cancelled.
IndicatesSuccess(r) ==
    IF r.ep = "webhook"
      THEN r.code = "00" /\ r.success = TRUE
      ELSE r.code = "00" /\ r.status = "PAID" /\ r.cancel # "true"

\* C31: a notification that does not indicate success changes neither the
\* ledger nor the registry.
C31_NonSuccessChangesNothing ==
    [][\A r \in Confirmations(ver) :
         (~IndicatesSuccess(r) /\ Confirm(r))
           => payments' = payments /\ licenses' = licenses]_vars

\* C32: a license that is used stays in the registry and stays used,
\* whatever the next operation is.
C32_UsedStaysUsed ==
    [][\A k \in DOMAIN licenses :
         licenses[k].status = "used"
           => k \in DOMAIN licenses' /\ licenses'[k].status = "used"]_vars

\* C33: an order is completed exactly when it carries a license key, that
\* key names a license of the registry minted for this order, and every
\* license of the registry is the key of exactly one order.
C33_LedgerMatchesRegistry ==
    /\ \A o \in DOMAIN payments :
         /\ payments[o].status = "completed" <=> payments[o].licenseKey # NoKey
         /\ payments[o].licenseKey # NoKey
              => /\ payments[o].licenseKey \in DOMAIN licenses
                 /\ licenses[payments[o].licenseKey].orderId = o
    /\ \A k \in DOMAIN licenses :
         Cardinality({ o \in DOMAIN payments : payments[o].licenseKey = k }) = 1

\* ----------------------------------------------------- key format properties

\* The 4-character groups of uppercase hexadecimal digits the generator
\* produces.
HexGroups == UNION { { r[i] : i \in DOMAIN r } : r \in randomBytes(16) }

\* The number of characters after the third dash-separated random group.
LastGroupLength(k) == 4 * (Len(k) - 4)

\* C34: every license key of the registry is PACK followed by four groups
\* of exactly four uppercase hexadecimal characters, and every spelling of
\* it normalises to a key of the registry.
C34_KeyFormat ==
    \A k \in DOMAIN licenses :
      /\ Len(k) = 5
      /\ k[1] = "PACK"
      /\ \A i \in 2..Len(k) : k[i] \in HexGroups
      /\ LastGroupLength(k) = 4
      /\ \A t \in KeyTexts : t.key = k => TrimUpper(t) \in DOMAIN licenses

\* ---------------------------------------------------------- amount properties

\* The status and the key of every order of a ledger.
Statuses(p) ==
    [o \in DOMAIN p |-> [status |-> p[o].status, licenseKey |-> p[o].licenseKey]]

\* What a confirmation handler that draws key k leaves behind: whether it
\* minted, the registry, the statuses of the ledger and its answer.
Outcome(r, k) ==
    LET c1 == LookupStep(NewCtx(r, FALSE))
        c2 == CheckStep(c1)
    IN  IF c1.pc = "respond"
          THEN [minted |-> FALSE, licenses |-> licenses,
                ledger |-> Statuses(payments), res |-> Response(ver, c1)]
        ELSE IF c2.pc = "respond"
          THEN [minted |-> FALSE, licenses |-> licenses,
                ledger |-> Statuses(payments), res |-> Response(ver, c2)]
        ELSE [minted |-> TRUE, licenses |-> MintedLicenses(c2, k),
              ledger |-> Statuses(MintedPayments(c2, k)),
              res |-> Response(ver, MintStep(c2, k))]

\* The same notification carrying amount a.
WithAmount(r, a) == [r EXCEPT !.damount = a]

InWindow(ip) ==
    ip \in DOMAIN activationAttempts /\ now <= activationAttempts[ip].resetTime

\* C36 as stated: in a window the attempt count goes up by one with every
\* request let through and never beyond 10; a request that finds the count
\* at 10 is answered 429 and changes no license; the first request after
\* the reset time is let through and leaves the count at 1.
C36_AttemptWindow ==
    /\ [](\A ip \in DOMAIN activationAttempts :
            activationAttempts[ip].count <= AttemptLimit)
    /\ [][\A ip \in Ips, t \in LimitKeyInputs :
            ActivateLicense(ip, t, "devX")
              => IF ~InWindow(ip)
                   THEN /\ res'.code # 429
                        /\ activationAttempts'[ip] =
                             [count |-> 1, resetTime |-> now + AttemptWindow]
                 ELSE IF activationAttempts[ip].count >= AttemptLimit
                   THEN /\ res'.code = 429
                        /\ licenses' = licenses
                        /\ activationAttempts' = activationAttempts
                 ELSE res'.code # 429
                        => activationAttempts'[ip] =
                             [activationAttempts[ip] EXCEPT !.count = @ + 1]]_vars

\* C36: the same for the requests that the rate limiter in front of the
\* route passes on; a request the rate limiter turns away is answered 429
\* and changes neither a license nor the attempt record.
C36_AttemptWindowBehindRateLimit ==
    /\ [](\A ip \in DOMAIN activationAttempts :
            activationAttempts[ip].count <= AttemptLimit)
    /\ [][\A ip \in Ips, t \in LimitKeyInputs :
            ActivateLicense(ip, t, "devX")
              => IF ~RateAllowed(ip)
                   THEN /\ res'.code = 429
                        /\ licenses' = licenses
                        /\ activationAttempts' = activationAttempts
                 ELSE IF ~InWindow(ip)
                   THEN /\ res'.code # 429
                        /\ activationAttempts'[ip] =
                             [count |-> 1, resetTime |-> now + AttemptWindow]
                 ELSE IF activationAttempts[ip].count >= AttemptLimit
                   THEN /\ res'.code = 429
                        /\ licenses' = licenses
                        /\ activationAttempts' = activationAttempts
                 ELSE /\ res'.code # 429
                      /\ activationAttempts'[ip] =
                           [activationAttempts[ip] EXCEPT !.count = @ + 1]]_vars

\* The eleventh activation of a window has just been answered 429 while the
\* registry holds a license.
C36_EleventhRefused ==
    /\ res.ep = "activate" /\ res.tag = "limited"
    /\ licenses # <<>>
    /\ \E ip \in DOMAIN activationAttempts :
         InWindow(ip) /\ activationAttempts[ip].count = AttemptLimit

\* ---------------------------------------------------- check-license properties

\* C37: check-license answers valid only for a license of the registry
\* whose expiry date is still ahead and that is unbound or bound to the
\* device of the request (a request without deviceId names no device), and
\* it changes no state.
C37_CheckLicenseIsSafe ==
    [][\A ip \in Ips, t \in HeldKeyInputs, d \in DeviceInputs :
         (res'.ep = "check-license" /\ CheckLicense(ip, t, d))
           => /\ res'.tag = "valid"
                   => /\ Names(t)
                      /\ now < licenses[TrimUpper(t)].expiryDate
                      /\ \/ licenses[TrimUpper(t)].deviceId = NoDevice
                         \/ d = NoDeviceId
                         \/ licenses[TrimUpper(t)].deviceId = hashDeviceId(d)
              /\ Stores' = Stores
              /\ requestCounts' = requestCounts]_vars

====
